---- MODULE Spec2Model ----
(***************************************************************************)
(* Street Bot chat front-end: the session store (sessionStorage slot and   *)
(* the in-memory session list), and the chat controller of the Home        *)
(* component (submit, response, New chat, session select).                 *)
(*                                                                         *)
(* JavaScript values are modelled as follows.                              *)
(*   - a string is a sequence of one-character strings;                    *)
(*   - null is None, a property holding undefined is Undef; a property     *)
(*     that is absent is a field the record does not have;                 *)
(*   - a value of type unknown (the content of a response message) or of   *)
(*     an optional property (metadata and what is read from it) is tagged  *)
(*     with its typeof: Str, Arr, Num, Obj, None, Undef;                   *)
(*   - an ISO timestamp string is [iso |-> ms]; Date#getTime reads ms;     *)
(*   - crypto.randomUUID() returns the next unused natural number; an id   *)
(*     derived from it by a template string is the tuple of its parts;     *)
(*   - new Date() reads a clock that does not run backwards: a handler     *)
(*     that reads it draws a reading not before the last one.              *)
(* A handler and the effects that run after its render are one step.       *)
(*                                                                         *)
(* Four specifications: Spec is the page under any agent; SettlingSpec is  *)
(* Spec where every fetch settles; ProviderSpec is the page under the      *)
(* agent AguiProvider makes of the environment and the window;             *)
(* FunctionSpec calls the store functions, the bucketer and                *)
(* getLoadingMessage on their own, on inputs the page does not reach.      *)
(* The local calendar counts DayLength clock units a day from midnight of  *)
(* 1 January 2024 and has no daylight-saving shift.                        *)
(***************************************************************************)
EXTENDS Integers, Sequences, FiniteSets, TLC

\* ------------------------------------------------------------------ bounds
MaxTurns == 2        \* submissions (fresh UUIDs) per behaviour
MaxNew == 1          \* length of newMessages in a response
MaxClock == 2        \* the last reading of the clock

\* null and undefined, as tagged values
None == [t |-> "null"]
Undef == [t |-> "undefined"]

\* The sessionId state when it is null, and the sessionId of a payload that
\* has none: the code only tests either for truthiness, and the empty string
\* is as falsy as null and undefined.
NoSession == <<>>

\* ------------------------------------------------------------- JS helpers
\* obj.key, undefined when the property is absent
Field(obj, key) == IF key \in DOMAIN obj THEN obj[key] ELSE Undef

IsWhite(c) == c \in {" ", "\t", "\n"}

RECURSIVE TrimStart(_)
TrimStart(s) ==
  IF s = <<>> THEN <<>>
  ELSE IF IsWhite(Head(s)) THEN TrimStart(Tail(s)) ELSE s

RECURSIVE TrimEnd(_)
TrimEnd(s) ==
  IF s = <<>> THEN <<>>
  ELSE IF IsWhite(s[Len(s)]) THEN TrimEnd(SubSeq(s, 1, Len(s) - 1)) ELSE s

\* String.prototype.trim
Trim(s) == TrimEnd(TrimStart(s))

\* Date#toISOString and new Date(iso).getTime()
ToISOString(ms) == [iso |-> ms]
GetTime(date) == date.iso

\* Array.prototype.join(sep) over strings
RECURSIVE Join(_, _)
Join(strs, sep) ==
  IF strs = <<>> THEN <<>>
  ELSE IF Len(strs) = 1 THEN strs[1]
  ELSE strs[1] \o sep \o Join(Tail(strs), sep)

\* ------------------------------------------------------ getLoadingMessage
UpperCase == <<"A", "B", "C", "D", "E", "F", "G", "H", "I", "J", "K", "L", "M",
               "N", "O", "P", "Q", "R", "S", "T", "U", "V", "W", "X", "Y", "Z">>
LowerCase == <<"a", "b", "c", "d", "e", "f", "g", "h", "i", "j", "k", "l", "m",
               "n", "o", "p", "q", "r", "s", "t", "u", "v", "w", "x", "y", "z">>

ToLowerChar(c) ==
  IF \E i \in DOMAIN UpperCase : UpperCase[i] = c
  THEN LowerCase[CHOOSE i \in DOMAIN UpperCase : UpperCase[i] = c]
  ELSE c

\* String.prototype.toLowerCase
ToLowerCase(s) == [i \in DOMAIN s |-> ToLowerChar(s[i])]

\* String.prototype.includes
Includes(s, kw) ==
  \E i \in 0..(Len(s) - Len(kw)) : SubSeq(s, i + 1, i + Len(kw)) = kw

IncludesAny(s, kws) == \E kw \in kws : Includes(s, kw)

\* A string literal of the program whose characters are never inspected is
\* the one-element sequence holding the literal (the ellipsis is written ...).
Literal(text) == <<text>>

HousingKeywords ==
  { <<"h", "o", "u", "s", "i", "n", "g">>,
    <<"s", "h", "e", "l", "t", "e", "r">>,
    <<"h", "o", "m", "e", "l", "e", "s", "s">>,
    <<"a", "p", "a", "r", "t", "m", "e", "n", "t">>,
    <<"p", "l", "a", "c", "e", " ", "t", "o", " ", "s", "t", "a", "y">> }

FoodKeywords ==
  { <<"f", "o", "o", "d">>,
    <<"m", "e", "a", "l">>,
    <<"h", "u", "n", "g", "r", "y">>,
    <<"e", "a", "t">>,
    <<"f", "o", "o", "d", " ", "b", "a", "n", "k">> }

MedicalKeywords ==
  { <<"m", "e", "d", "i", "c", "a", "l">>,
    <<"d", "o", "c", "t", "o", "r">>,
    <<"h", "e", "a", "l", "t", "h">>,
    <<"c", "l", "i", "n", "i", "c">>,
    <<"h", "o", "s", "p", "i", "t", "a", "l">>,
    <<"s", "i", "c", "k">> }

EmploymentKeywords ==
  { <<"j", "o", "b">>,
    <<"w", "o", "r", "k">>,
    <<"e", "m", "p", "l", "o", "y", "m", "e", "n", "t">>,
    <<"h", "i", "r", "e">>,
    <<"c", "a", "r", "e", "e", "r">> }

LegalKeywords ==
  { <<"l", "e", "g", "a", "l">>,
    <<"l", "a", "w", "y", "e", "r">>,
    <<"c", "o", "u", "r", "t">>,
    <<"r", "i", "g", "h", "t", "s">> }

MentalKeywords ==
  { <<"m", "e", "n", "t", "a", "l">>,
    <<"c", "o", "u", "n", "s", "e", "l", "i", "n", "g">>,
    <<"t", "h", "e", "r", "a", "p", "y">>,
    <<"d", "e", "p", "r", "e", "s", "s", "i", "o", "n">>,
    <<"a", "n", "x", "i", "e", "t", "y">> }

TransportKeywords ==
  { <<"t", "r", "a", "n", "s", "p", "o", "r", "t">>,
    <<"b", "u", "s">>,
    <<"r", "i", "d", "e">>,
    <<"g", "e", "t", " ", "t", "h", "e", "r", "e">> }

HelpKeywords ==
  { <<"h", "e", "l", "p">>,
    <<"s", "u", "p", "p", "o", "r", "t">>,
    <<"n", "e", "e", "d">>,
    <<"a", "s", "s", "i", "s", "t">> }

NearMeKeywords ==
  { <<"n", "e", "a", "r", " ", "m", "e">>,
    <<"n", "e", "a", "r", "b", "y">>,
    <<"c", "l", "o", "s", "e">>,
    <<"a", "r", "o", "u", "n", "d", " ", "h", "e", "r", "e">> }

defaultMessages ==
  << Literal("Analyzing your request..."),
     Literal("Looking up available resources..."),
     Literal("Checking what help is available..."),
     Literal("Finding services that match your needs...") >>

\* getLoadingMessage with the food test before the housing test
getLoadingMessage_FoodFirst(userMessage) ==
  LET messageLower == ToLowerCase(userMessage) IN
  IF IncludesAny(messageLower, FoodKeywords)
    THEN Literal("Finding food resources in your area...")
  ELSE  IF IncludesAny(messageLower, HousingKeywords)
    THEN Literal("Searching for housing options near you...")
  ELSE  IF IncludesAny(messageLower, MedicalKeywords)
    THEN Literal("Looking up healthcare services for you...")
  ELSE  IF IncludesAny(messageLower, EmploymentKeywords)
    THEN Literal("Searching for employment resources...")
  ELSE  IF IncludesAny(messageLower, LegalKeywords)
    THEN Literal("Finding legal assistance options...")
  ELSE  IF IncludesAny(messageLower, MentalKeywords)
    THEN Literal("Locating mental health support services...")
  ELSE  IF IncludesAny(messageLower, TransportKeywords)
    THEN Literal("Checking transportation options...")
  ELSE  IF IncludesAny(messageLower, HelpKeywords)
    THEN Literal("Finding the best support options for you...")
  ELSE  IF IncludesAny(messageLower, NearMeKeywords)
    THEN Literal("Searching for nearby services...")
  ELSE defaultMessages[(Len(userMessage) % Len(defaultMessages)) + 1]

getLoadingMessage(userMessage) ==
  LET messageLower == ToLowerCase(userMessage) IN
  IF IncludesAny(messageLower, HousingKeywords)
    THEN Literal("Searching for housing options near you...")
  ELSE  IF IncludesAny(messageLower, FoodKeywords)
    THEN Literal("Finding food resources in your area...")
  ELSE  IF IncludesAny(messageLower, MedicalKeywords)
    THEN Literal("Looking up healthcare services for you...")
  ELSE  IF IncludesAny(messageLower, EmploymentKeywords)
    THEN Literal("Searching for employment resources...")
  ELSE  IF IncludesAny(messageLower, LegalKeywords)
    THEN Literal("Finding legal assistance options...")
  ELSE  IF IncludesAny(messageLower, MentalKeywords)
    THEN Literal("Locating mental health support services...")
  ELSE  IF IncludesAny(messageLower, TransportKeywords)
    THEN Literal("Checking transportation options...")
  ELSE  IF IncludesAny(messageLower, HelpKeywords)
    THEN Literal("Finding the best support options for you...")
  ELSE  IF IncludesAny(messageLower, NearMeKeywords)
    THEN Literal("Searching for nearby services...")
  ELSE defaultMessages[(Len(userMessage) % Len(defaultMessages)) + 1]

\* ------------------------------------------------------------ extractText
Str(s) == [t |-> "string", v |-> s]
Arr(a) == [t |-> "array", v |-> a]
Num(n) == [t |-> "number", v |-> n]
Obj(r) == [t |-> "object", v |-> r]

\* typeof x === "string", Array.isArray(x), typeof x === "object" && x !== null
IsString(x) == x \notin {None, Undef} /\ x.t = "string"
IsArray(x) == x \notin {None, Undef} /\ x.t = "array"
IsObject(x) == x \notin {None, Undef} /\ x.t \in {"object", "array"}

\* !x for a tagged value
Falsy(x) == x \in {None, Undef, Str(<<>>), Num(0)}

\* x?.key for a tagged value
Prop(x, key) ==
  IF x \notin {None, Undef} /\ x.t = "object" THEN Field(x.v, key) ELSE Undef

ChildText(child) ==
  IF IsString(Prop(child, "text")) THEN Prop(child, "text").v ELSE <<>>

PartText(part) ==
  IF ~IsObject(part) THEN <<>>
  ELSE IF IsString(Prop(part, "text")) THEN Prop(part, "text").v
  ELSE IF IsArray(Prop(part, "children"))
       THEN LET children == Prop(part, "children").v
            IN Join([i \in DOMAIN children |-> ChildText(children[i])], <<>>)
  ELSE <<>>

extractText(content) ==
  IF Falsy(content) THEN <<>>
  ELSE IF IsString(content) THEN content.v
  ELSE IF ~IsArray(content) THEN <<>>
  ELSE Join([i \in DOMAIN content.v |-> PartText(content.v[i])], <<"\n">>)

\* ------------------------------------------------------ the session store
TitleMax == 48
TitleKeep == 45

getDefaultSessionTitle(message) ==
  LET trimmed == Trim(message) IN
  IF trimmed = <<>> THEN Literal("Untitled chat")
  ELSE IF Len(trimmed) <= TitleMax THEN trimmed
  ELSE SubSeq(trimmed, 1, TitleKeep) \o <<"...">>

\* The properties of a StoredMessage that hold tagged values (the others are
\* strings, always defined)
OptionalKeys == {"metadata", "serviceGroups", "nextActions", "needsIdentified"}

\* JSON.stringify of an object: a property holding undefined is left out
StripUndefined(obj) ==
  [k \in {key \in DOMAIN obj : ~(key \in OptionalKeys /\ obj[key] = Undef)} |-> obj[k]]

StringifySession(session) ==
  [session EXCEPT !.messages =
     [i \in DOMAIN session.messages |-> StripUndefined(session.messages[i])]]

\* The text in the slot, by what JSON.parse makes of it: the JSON text of an
\* array, the JSON text of another value, a text that is no JSON, the empty
\* string.
JSONStringify(sessions) ==
  [kind |-> "array", items |-> [i \in DOMAIN sessions |-> StringifySession(sessions[i])]]

NotAnArrayText == [kind |-> "object"]
MalformedText == [kind |-> "malformed"]
EmptyText == [kind |-> "empty"]
Absent == [kind |-> "absent"]

\* readStoredSessions that wraps a parsed value that is no array in one
readStoredSessions_WrapsNonArray(stored, storageThrows) ==
  IF storageThrows THEN <<>>
  ELSE IF stored \in {Absent, EmptyText} THEN <<>>
  ELSE IF stored = MalformedText THEN <<>>
  ELSE IF stored.kind # "array" THEN <<stored>>
  ELSE stored.items

\* readStoredSessions; storageThrows: sessionStorage.getItem raises
readStoredSessions(stored, storageThrows) ==
  IF storageThrows THEN <<>>
  ELSE IF stored \in {Absent, EmptyText} THEN <<>>
  ELSE IF stored = MalformedText THEN <<>>
  ELSE IF stored.kind # "array" THEN <<>>
  ELSE stored.items

\* writeStoredSessions without the removal of the slot for an empty list
writeStoredSessions_StoresEmpty(stored, next, storageThrows) ==
  IF storageThrows THEN stored
  ELSE JSONStringify(next)

\* writeStoredSessions that writes nothing
writeStoredSessions_LeavesSlot(stored, next, storageThrows) == stored

\* writeStoredSessions: the slot after the call; storageThrows: setItem or
\* removeItem raises (quota exceeded, storage denied)
writeStoredSessions(stored, next, storageThrows) ==
  IF storageThrows THEN stored
  ELSE IF Len(next) = 0 THEN Absent
  ELSE JSONStringify(next)

\* upsertSession without the search for the entry to replace
upsertSession_AlwaysAppends(sessions, session) == Append(sessions, session)

\* upsertSession that drops the entry found and appends the new one
upsertSession_MovesToEnd(sessions, session) ==
  Append(SelectSeq(sessions, LAMBDA item : item.sessionId # session.sessionId), session)

upsertSession(sessions, session) ==
  IF \A i \in DOMAIN sessions : sessions[i].sessionId # session.sessionId
  THEN Append(sessions, session)
  ELSE LET index == CHOOSE i \in DOMAIN sessions :
                      /\ sessions[i].sessionId = session.sessionId
                      /\ \A j \in 1..(i - 1) : sessions[j].sessionId # session.sessionId
       IN [sessions EXCEPT ![index] = session]

\* The array passed as sessions, after the call: upsertSession reads it and
\* writes to the copies [...sessions, session] and [...sessions]
upsertSessionLeaves(sessions, session) == sessions

\* InsertByUpdated for the comparator a.updatedAt - b.updatedAt
RECURSIVE InsertByUpdated_OldestFirst(_, _)
InsertByUpdated_OldestFirst(sorted, x) ==
  IF sorted = <<>> THEN <<x>>
  ELSE IF GetTime(Head(sorted).updatedAt) <= GetTime(x.updatedAt)
       THEN <<Head(sorted)>> \o InsertByUpdated_OldestFirst(Tail(sorted), x)
       ELSE <<x>> \o sorted

\* InsertByUpdated for a sort that puts an entry before the entries that
\* compare equal to it
RECURSIVE InsertByUpdated_BeforeEqual(_, _)
InsertByUpdated_BeforeEqual(sorted, x) ==
  IF sorted = <<>> THEN <<x>>
  ELSE IF GetTime(Head(sorted).updatedAt) > GetTime(x.updatedAt)
       THEN <<Head(sorted)>> \o InsertByUpdated_BeforeEqual(Tail(sorted), x)
       ELSE <<x>> \o sorted

\* Array.prototype.sort with the comparator b.updatedAt - a.updatedAt: stable,
\* newest first. InsertByUpdated puts x after every entry that is not older.
RECURSIVE InsertByUpdated(_, _)
InsertByUpdated(sorted, x) ==
  IF sorted = <<>> THEN <<x>>
  ELSE IF GetTime(Head(sorted).updatedAt) >= GetTime(x.updatedAt)
       THEN <<Head(sorted)>> \o InsertByUpdated(Tail(sorted), x)
       ELSE <<x>> \o sorted

RECURSIVE SortFrom(_, _, _)
SortFrom(sessions, i, acc) ==
  IF i > Len(sessions) THEN acc
  ELSE SortFrom(sessions, i + 1, InsertByUpdated(acc, sessions[i]))

\* sortSessionsByUpdated that returns the copy as it is
sortSessionsByUpdated_CopyOnly(sessions) == sessions

\* [...sessions].sort((a, b) => b.updatedAt - a.updatedAt)
sortSessionsByUpdated(sessions) == SortFrom(sessions, 1, <<>>)

\* The array passed as sessions, after the call: Array#sort sorts in place,
\* here the copy [...sessions]
sortSessionsByUpdatedLeaves(sessions) == sessions

\* ------------------------------------------------------ the local calendar
\* An instant is a number of clock units since local midnight of 1 January
\* 2024; a local day has DayLength of them (no daylight-saving shift).
DayLength == 2

IsLeapYear(y) == (y % 4 = 0 /\ y % 100 # 0) \/ y % 400 = 0

DaysInYear(y) == IF IsLeapYear(y) THEN 366 ELSE 365

\* m is a month index as Date#getMonth gives it, 0 to 11
DaysInMonth(y, m) ==
  IF m = 1 THEN (IF IsLeapYear(y) THEN 29 ELSE 28)
  ELSE IF m \in {3, 5, 8, 10} THEN 30
  ELSE 31

\* The day number of 1 January of year y
RECURSIVE DayOfYearStart(_)
DayOfYearStart(y) ==
  IF y <= 2024 THEN 0 ELSE DayOfYearStart(y - 1) + DaysInYear(y - 1)

\* The day number of the first day of month m of year y
RECURSIVE DayOfMonthStart(_, _)
DayOfMonthStart(y, m) ==
  IF m = 0 THEN DayOfYearStart(y)
  ELSE DayOfMonthStart(y, m - 1) + DaysInMonth(y, m - 1)

\* The local day an instant falls on, and its place in that day
LocalDay(t) == t \div DayLength
TimeInDay(t) == t % DayLength

RECURSIVE YearFrom(_, _)
YearFrom(day, y) ==
  IF day < DayOfYearStart(y + 1) THEN y ELSE YearFrom(day, y + 1)

RECURSIVE MonthFrom(_, _, _)
MonthFrom(day, y, m) ==
  IF m = 11 \/ day < DayOfMonthStart(y, m + 1) THEN m ELSE MonthFrom(day, y, m + 1)

\* Date#getFullYear, Date#getMonth, Date#getDate
getFullYear(t) == YearFrom(LocalDay(t), 2024)
getMonth(t) == MonthFrom(LocalDay(t), getFullYear(t), 0)
getDate(t) == LocalDay(t) - DayOfMonthStart(getFullYear(t), getMonth(t)) + 1

\* Date#setDate(n): the day n of the month of t, at the time of day of t; an
\* n below 1 counts back into the months before
setDate(t, n) ==
  (DayOfMonthStart(getFullYear(t), getMonth(t)) + n - 1) * DayLength + TimeInDay(t)

\* new Date(iso), the instant of an ISO timestamp
DateOf(iso) == GetTime(iso)

\* String(n) for a natural number
Digit(d) == <<"0", "1", "2", "3", "4", "5", "6", "7", "8", "9">>[d + 1]

RECURSIVE NumberToString(_)
NumberToString(n) == IF n < 10 THEN <<Digit(n)>> ELSE Append(NumberToString(n \div 10), Digit(n % 10))

\* String.prototype.padStart(length, fill) with a one-character fill
RECURSIVE PadStart(_, _, _)
PadStart(s, length, fill) ==
  IF Len(s) >= length THEN s ELSE PadStart(<<fill>> \o s, length, fill)

formatDateKey(date) ==
  NumberToString(getFullYear(date)) \o <<"-">> \o PadStart(NumberToString(getMonth(date) + 1), 2, "0")

isSameDay(a, b) ==
  /\ getFullYear(a) = getFullYear(b)
  /\ getMonth(a) = getMonth(b)
  /\ getDate(a) = getDate(b)

\* ---------------------------------------------------------- bucketSessions
\* buckets.monthly[monthKey].push(session), after the group is made if missing
PushMonthly(monthly, monthKey, session) ==
  [k \in DOMAIN monthly \cup {monthKey} |->
     IF k = monthKey
     THEN Append(IF monthKey \in DOMAIN monthly THEN monthly[monthKey] ELSE <<>>, session)
     ELSE monthly[k]]

\* The body of the forEach without its early returns: a session is pushed to
\* every bucket whose test it passes
BucketOne_FallsThrough(buckets, session, now) ==
  LET yesterday == setDate(now, getDate(now) - 1)
      sevenDaysAgo == setDate(now, getDate(now) - 7)
      updatedAt == DateOf(session.updatedAt)
      first == IF isSameDay(updatedAt, now)
               THEN [buckets EXCEPT !.today = Append(@, session)] ELSE buckets
      second == IF isSameDay(updatedAt, yesterday)
                THEN [first EXCEPT !.yesterday = Append(@, session)] ELSE first
      third == IF updatedAt >= sevenDaysAgo
               THEN [second EXCEPT !.last7Days = Append(@, session)] ELSE second
  IN [third EXCEPT !.monthly = PushMonthly(@, formatDateKey(updatedAt), session)]

\* The body of the forEach with a yesterday that is 24 hours before now
\* compared by instant, not by calendar day
BucketOne_YesterdayByHours(buckets, session, now) ==
  LET sevenDaysAgo == setDate(now, getDate(now) - 7)
      updatedAt == DateOf(session.updatedAt)
  IN IF isSameDay(updatedAt, now)
       THEN [buckets EXCEPT !.today = Append(@, session)]
     ELSE IF updatedAt >= now - DayLength
       THEN [buckets EXCEPT !.yesterday = Append(@, session)]
     ELSE IF updatedAt >= sevenDaysAgo
       THEN [buckets EXCEPT !.last7Days = Append(@, session)]
     ELSE [buckets EXCEPT !.monthly = PushMonthly(@, formatDateKey(updatedAt), session)]

\* The body of the forEach: the buckets after one session
BucketOne(buckets, session, now) ==
  LET yesterday == setDate(now, getDate(now) - 1)
      sevenDaysAgo == setDate(now, getDate(now) - 7)
      updatedAt == DateOf(session.updatedAt)
  IN IF isSameDay(updatedAt, now)
       THEN [buckets EXCEPT !.today = Append(@, session)]
     ELSE IF isSameDay(updatedAt, yesterday)
       THEN [buckets EXCEPT !.yesterday = Append(@, session)]
     ELSE IF updatedAt >= sevenDaysAgo
       THEN [buckets EXCEPT !.last7Days = Append(@, session)]
     ELSE [buckets EXCEPT !.monthly = PushMonthly(@, formatDateKey(updatedAt), session)]

RECURSIVE BucketFrom(_, _, _, _)
BucketFrom(sessions, i, buckets, now) ==
  IF i > Len(sessions) THEN buckets
  ELSE BucketFrom(sessions, i + 1, BucketOne(buckets, sessions[i], now), now)

\* now: what new Date() reads
bucketSessions(sessions, now) ==
  BucketFrom(sessions, 1,
             [today |-> <<>>, yesterday |-> <<>>, last7Days |-> <<>>, monthly |-> <<>>],
             now)

\* ------------------------------------------------------------- the state
VARIABLES
  agent,                  \* useHttpAgent(): None, or the HttpAgent
  messages,               \* useState<ChatMessage[]>([])
  sessionId,              \* useState<string | null>(null)
  storedSessions,         \* useState<StoredSession[]>([])
  input,                  \* useState("")
  isPending,              \* useTransition(): an async action passed to startTransition has not settled
  hasInitializedSession,  \* useState(false)
  slot,                   \* sessionStorage["streetbot:sessions"]
  inflight,               \* the fetches not yet settled, each with the closure of its handleSubmit
  clock,                  \* what new Date() reads, in ms
  nextUuid,               \* the next value of crypto.randomUUID()
  event,                  \* the handler that ran last, and the turn it ran for
  call,                   \* a function called on its own: its name and its arguments
  outcome                \* and what the call outcome, once it has

vars == <<agent, messages, sessionId, storedSessions, input, isPending,
          hasInitializedSession, slot, inflight, clock, nextUuid, event,
          call, outcome>>

\* No function is called on its own while the page runs
NoCall == [fn |-> "none"]
NotReturned == [done |-> FALSE]

HttpAgent == [url |-> Literal("/agui/run-agent")]

\* ----------------------------------------------------------- AguiProvider
\* window: there is none (typeof window === "undefined"), or its location is
\* one that new URL() refuses, or one it parses
NoWindow == [kind |-> "none"]
BadLocation == [kind |-> "invalid"]
Location(protocol, hostname, port) ==
  [kind |-> "url", protocol |-> protocol, hostname |-> hostname, port |-> port]

\* URL#origin, as the sequence of its parts
Origin(current) ==
  <<current.protocol, "//", current.hostname>>
    \o (IF current.port = "" THEN <<>> ELSE <<":", current.port>>)

\* base.replace(/\/$/, "")
WithoutTrailingSlash(base) ==
  IF base # <<>> /\ base[Len(base)] = "/" THEN SubSeq(base, 1, Len(base) - 1) ELSE base

\* agentUrl without the URL derived from the location of the page
agentUrl_EnvOnly(env, window) ==
  LET envUrl == IF env = Undef THEN Undef ELSE Str(Trim(env.v)) IN
  IF ~Falsy(envUrl) THEN envUrl ELSE Undef

\* The first useMemo; env: process.env.NEXT_PUBLIC_AGENT_URL, Undef when unset
agentUrl(env, window) ==
  LET envUrl == IF env = Undef THEN Undef ELSE Str(Trim(env.v)) IN
  IF ~Falsy(envUrl) THEN envUrl
  ELSE IF window.kind = "none" THEN Undef
  ELSE IF window.kind = "invalid" THEN Undef
  ELSE LET current == window
           isDevPort == current.port = "3000"
           base == IF isDevPort
                   THEN <<current.protocol, "//", current.hostname, ":", "8000">>
                   ELSE Origin(current)
       IN Str(WithoutTrailingSlash(base) \o <<"/agui/run-agent">>)

\* The second useMemo: the value of the context
AguiProvider(env, window) ==
  LET url == agentUrl(env, window) IN
  IF Falsy(url) THEN None ELSE [url |-> url.v]

\* ------------------------------------------------------- what the user types
Inputs == { <<" ">>, <<" ", "F", "o", "o", "d">> }

\* ------------------------------------------------- what the agent answers
TextPart(s) == Obj([type |-> Str(Literal("text")), text |-> Str(s)])

ServiceGroup == Obj([category |-> Str(Literal("food")), totalFound |-> Num(1)])

Metadata1 ==
  Obj([tools |-> Obj([service_lookup |-> Arr(<<ServiceGroup>>)]),
       nextActions |-> Arr(<<Str(Literal("call"))>>)])

ResponseMessages ==
  { [role |-> "tool", content |-> Arr(<<TextPart(<<"a">>), TextPart(<<"b">>)>>),
     metadata |-> Metadata1] }

SessionIds == { Literal("s1"), Literal("s2") }

RECURSIVE SeqsUpTo(_, _)
SeqsUpTo(S, n) ==
  IF n = 0 THEN { <<>> }
  ELSE LET shorter == SeqsUpTo(S, n - 1)
       IN shorter \cup { Append(q, x) : q \in {r \in shorter : Len(r) = n - 1}, x \in S }

\* RunAgentResponsePayload, as response.json() returns it
Payloads ==
  [ sessionId : SessionIds \cup {NoSession},
    newMessages : SeqsUpTo(ResponseMessages, MaxNew) ]

\* --------------------------------------------- what the slot holds at start
OldUser(uuid, at) ==
  [id |-> <<uuid>>, role |-> "user", content |-> <<"h", "i">>, createdAt |-> ToISOString(at)]

OldAssistant(uuid, at) ==
  [id |-> <<uuid, "assistant", 0>>, role |-> "assistant", content |-> <<"o", "k">>,
   metadata |-> Undef, serviceGroups |-> Arr(<<>>), nextActions |-> Arr(<<>>),
   needsIdentified |-> Arr(<<>>), createdAt |-> ToISOString(at)]

OldSession(sid, uuid, at) ==
  [sessionId |-> sid, title |-> <<"h", "i">>,
   messages |-> <<OldUser(uuid, at), OldAssistant(uuid, at)>>,
   createdAt |-> ToISOString(at), updatedAt |-> ToISOString(at)]

InitialSlots ==
  { Absent,
    JSONStringify(<<OldSession(Literal("s2"), -2, 0), OldSession(Literal("s1"), -1, 1)>>) }

\* ------------------------------------------------------------ the handlers
HasSession(sessions, id) == \E i \in DOMAIN sessions : sessions[i].sessionId = id

\* Array.prototype.find by sessionId (the first match)
FindSession(sessions, id) ==
  sessions[CHOOSE i \in DOMAIN sessions :
             /\ sessions[i].sessionId = id
             /\ \A j \in 1..(i - 1) : sessions[j].sessionId # id]

\* The ChatMessage handleSelectSession makes of a StoredMessage
SelectedMessage(message) ==
  [id |-> message.id, role |-> message.role, content |-> message.content,
   metadata |-> Field(message, "metadata"),
   serviceGroups |-> Field(message, "serviceGroups"),
   nextActions |-> Field(message, "nextActions"),
   needsIdentified |-> Field(message, "needsIdentified")]

\* The state handleSelectSession(id) leaves, from the state given
handleSelectSession(live, id) ==
  IF ~HasSession(live.storedSessions, id) THEN live
  ELSE LET session == FindSession(live.storedSessions, id) IN
       [live EXCEPT
          !.hasInitializedSession = TRUE,
          !.sessionId = session.sessionId,
          !.messages = [i \in DOMAIN session.messages |-> SelectedMessage(session.messages[i])],
          !.input = <<>>]

\* The effect that selects the latest session while nothing was ever selected
\* and no conversation is open; it runs after every render.
AutoSelectEffect(live) ==
  IF \/ live.hasInitializedSession
     \/ live.sessionId # NoSession
     \/ Len(live.messages) > 0
     \/ Len(live.storedSessions) = 0
  THEN live
  ELSE handleSelectSession([live EXCEPT !.hasInitializedSession = TRUE],
                           live.storedSessions[1].sessionId)

\* The React state after a handler has set it and the effects have run
Render(live) ==
  LET after == AutoSelectEffect(live) IN
  /\ messages' = after.messages
  /\ sessionId' = after.sessionId
  /\ storedSessions' = after.storedSessions
  /\ input' = after.input
  /\ hasInitializedSession' = after.hasInitializedSession

Live ==
  [messages |-> messages, sessionId |-> sessionId, storedSessions |-> storedSessions,
   input |-> input, hasInitializedSession |-> hasInitializedSession]

\* The mount effect: the slot is read and sorted into storedSessions
Mounted(stored, storageThrows) ==
  AutoSelectEffect(
    [messages |-> <<>>, sessionId |-> NoSession,
     storedSessions |-> sortSessionsByUpdated(readStoredSessions(stored, storageThrows)),
     input |-> <<>>, hasInitializedSession |-> FALSE])

Init ==
  /\ agent \in {None, HttpAgent}
  /\ slot \in InitialSlots
  /\ LET live == Mounted(slot, FALSE) IN
       /\ messages = live.messages
       /\ sessionId = live.sessionId
       /\ storedSessions = live.storedSessions
       /\ input = live.input
       /\ hasInitializedSession = live.hasInitializedSession
       /\ event = [op |-> "mount"]
  /\ isPending = FALSE
  /\ inflight = {}
  /\ clock = 1
  /\ nextUuid = 1
  /\ call = NoCall
  /\ outcome = NotReturned

\* onChange of the text field, handleExampleClick
SetInput ==
  /\ \E text \in Inputs : input' = text
  /\ event' = [op |-> "input"]
  /\ UNCHANGED <<agent, messages, sessionId, storedSessions, isPending,
                 hasInitializedSession, slot, inflight, clock, nextUuid,
                 call, outcome>>

\* handleNewChat that also drops the request that is out
handleNewChat_Cancels ==
  /\ Render([Live EXCEPT !.messages = <<>>, !.sessionId = NoSession, !.input = <<>>])
  /\ event' = [op |-> "newChat"]
  /\ inflight' = {}
  /\ isPending' = FALSE
  /\ UNCHANGED <<agent, slot, clock, nextUuid, call, outcome>>

handleNewChat ==
  /\ Render([Live EXCEPT !.messages = <<>>, !.sessionId = NoSession, !.input = <<>>])
  /\ event' = [op |-> "newChat"]
  /\ UNCHANGED <<agent, isPending, slot, inflight, clock, nextUuid, call, outcome>>

\* A click on a sidebar entry
SelectSession ==
  /\ \E i \in DOMAIN storedSessions :
       /\ Render(handleSelectSession(Live, storedSessions[i].sessionId))
       /\ event' = [op |-> "select"]
  /\ UNCHANGED <<agent, isPending, slot, inflight, clock, nextUuid, call, outcome>>

\* ------------------------------------------------------------ handleSubmit
\* What new Date() can read: the clock does not run backwards
Later == clock..MaxClock

\* variant?: undefined
NoVariant == "undefined"

UserMessageOf(uuid, text) == [id |-> <<uuid>>, role |-> "user", content |-> Trim(text)]

\* loadingMessageId without the suffix: the id of the user message itself
loadingMessageId_OfUserMessage(userMessage) == userMessage.id

\* `${userMessage.id}-loading`
loadingMessageId(userMessage) == <<userMessage.id[1], "loading">>

LoadingMessage(userMessage) ==
  [id |-> loadingMessageId(userMessage), role |-> "assistant",
   content |-> getLoadingMessage(userMessage.content), variant |-> "callout"]

MissingAgentMessage(userMessage) ==
  [id |-> <<userMessage.id[1], "missing-agent">>, role |-> "system",
   content |-> Literal("Street Bot isn't connected to an agent yet. Set NEXT_PUBLIC_AGENT_URL and reload to chat."),
   variant |-> "callout"]

ErrorMessage(userMessage) ==
  [id |-> <<userMessage.id[1], "error">>, role |-> "system",
   content |-> Literal("We couldn't reach the Street Bot service. Check your agent URL or try again."),
   variant |-> "callout"]

HasMessageId(session, id) == \E i \in DOMAIN session.messages : session.messages[i].id = id

\* The updater of setStoredSessions at submit time reaches its write
SubmitPersists(prev, currentSessionId, storedUserMessage) ==
  /\ currentSessionId # NoSession
  /\ HasSession(prev, currentSessionId)
  /\ ~HasMessageId(FindSession(prev, currentSessionId), storedUserMessage.id)

\* PersistUserMessage with filter where the code has map: the other sessions
\* are lost
PersistUserMessage_DropsOthers(prev, currentSessionId, storedUserMessage) ==
  LET existing == FindSession(prev, currentSessionId)
  IN <<[existing EXCEPT !.messages = Append(existing.messages, storedUserMessage),
                        !.updatedAt = storedUserMessage.createdAt]>>

\* PersistUserMessage without the refresh of updatedAt
PersistUserMessage_KeepsUpdatedAt(prev, currentSessionId, storedUserMessage) ==
  LET existing == FindSession(prev, currentSessionId)
      updatedSession ==
        [existing EXCEPT !.messages = Append(existing.messages, storedUserMessage)]
  IN sortSessionsByUpdated(
       [i \in DOMAIN prev |->
          IF prev[i].sessionId = currentSessionId THEN updatedSession ELSE prev[i]])

\* PersistUserMessage on the sessions the slot holds, where it holds the
\* current one, instead of the list in memory
PersistUserMessage_FromSlot(prev, currentSessionId, storedUserMessage) ==
  LET held == readStoredSessions(slot, FALSE)
      base == IF HasSession(held, currentSessionId) THEN held ELSE prev
      existing == FindSession(base, currentSessionId)
      updatedSession ==
        [existing EXCEPT !.messages = Append(existing.messages, storedUserMessage),
                         !.updatedAt = storedUserMessage.createdAt]
  IN sortSessionsByUpdated(
       [i \in DOMAIN base |->
          IF base[i].sessionId = currentSessionId THEN updatedSession ELSE base[i]])

\* and what it then writes and returns
PersistUserMessage(prev, currentSessionId, storedUserMessage) ==
  LET existing == FindSession(prev, currentSessionId)
      updatedSession ==
        [existing EXCEPT !.messages = Append(existing.messages, storedUserMessage),
                         !.updatedAt = storedUserMessage.createdAt]
  IN sortSessionsByUpdated(
       [i \in DOMAIN prev |->
          IF prev[i].sessionId = currentSessionId THEN updatedSession ELSE prev[i]])

\* disabled={isPending || !input.trim()} on the submit button, the form's
\* default button: a disabled default button also blocks submission by Enter
SendEnabled_IgnoresPending == Trim(input) # <<>>

SendEnabled == ~isPending /\ Trim(input) # <<>>

handleSubmitAt(today, storageThrows) ==
  IF Trim(input) = <<>> THEN UNCHANGED vars
  ELSE
    LET userMessage == UserMessageOf(nextUuid, input)
        storedUserMessage ==
          [id |-> userMessage.id, role |-> "user", content |-> userMessage.content,
           createdAt |-> ToISOString(today)]
        nextMessages == Append(messages, userMessage)
        withLoading == Append(nextMessages, LoadingMessage(userMessage))
        currentSessionId == sessionId
        persists == SubmitPersists(storedSessions, currentSessionId, storedUserMessage)
        nextSessions ==
          IF persists
          THEN PersistUserMessage(storedSessions, currentSessionId, storedUserMessage)
          ELSE storedSessions
        closure == [userMessage |-> userMessage, messages |-> messages, sessionId |-> sessionId]
    IN
    /\ nextUuid' = nextUuid + 1
    /\ persists \/ ~storageThrows
    /\ slot' = IF persists
               THEN writeStoredSessions(slot, nextSessions, storageThrows)
               ELSE slot
    /\ event' = [op |-> "submit", uuid |-> nextUuid]
    /\ IF agent = None
       THEN /\ Render([Live EXCEPT
                         !.messages = Append(withLoading, MissingAgentMessage(userMessage)),
                         !.storedSessions = nextSessions,
                         !.input = <<>>])
            /\ UNCHANGED <<isPending, inflight>>
       ELSE /\ Render([Live EXCEPT
                         !.messages = withLoading,
                         !.storedSessions = nextSessions,
                         !.input = <<>>])
            /\ isPending' = TRUE
            /\ inflight' = inflight \cup {closure}
    /\ clock' = today
    /\ UNCHANGED <<agent, call, outcome>>

\* today: what new Date() reads; storageThrows: the write to the slot raises
handleSubmit ==
  \E today \in Later, storageThrows \in BOOLEAN : handleSubmitAt(today, storageThrows)

\* The form is submitted
SubmitForm ==
  /\ SendEnabled
  /\ nextUuid <= MaxTurns
  /\ handleSubmit

\* The body of the request of a turn
toAgentMessages(history) ==
  [i \in DOMAIN history |->
     [id |-> history[i].id, role |-> history[i].role,
      content |-> <<[type |-> "text", text |-> history[i].content]>>]]

runConfig(turn) ==
  LET body == [messages |-> toAgentMessages(Append(turn.messages, turn.userMessage))] IN
  IF turn.sessionId # NoSession
  THEN [k \in {"messages", "sessionId"} |->
          IF k = "messages" THEN body.messages ELSE turn.sessionId]
  ELSE body

\* ------------------------------------------------- the response of a turn
\* a ?? b for tagged values
Nullish(a, b) == IF a \in {None, Undef} THEN b ELSE a

AssistantMessage(userMessage, message, index) ==
  LET metadata == Field(message, "metadata")
      rawServiceGroups == Prop(Prop(metadata, "tools"), "service_lookup")
      serviceGroups == IF IsArray(rawServiceGroups) THEN rawServiceGroups ELSE Arr(<<>>)
  IN [id |-> <<userMessage.id[1], "assistant", index>>,
      role |-> IF message.role \in {"user", "assistant"} THEN message.role ELSE "assistant",
      content |-> IF "content" \in DOMAIN message THEN extractText(message.content) ELSE <<>>,
      metadata |-> metadata,
      variant |-> IF Len(serviceGroups.v) > 0 THEN "callout" ELSE NoVariant,
      serviceGroups |-> serviceGroups,
      nextActions |-> Nullish(Prop(metadata, "nextActions"), Arr(<<>>)),
      needsIdentified |-> Nullish(Prop(metadata, "needsIdentified"), Arr(<<>>))]

\* AssistantMessages of a response taken as empty
AssistantMessages_None(userMessage, newMessages) == <<>>

\* (payload?.newMessages ?? []).map(...)
AssistantMessages(userMessage, newMessages) ==
  [i \in DOMAIN newMessages |-> AssistantMessage(userMessage, newMessages[i], i - 1)]

StoredAssistantMessage(assistantMessage, now) ==
  [id |-> assistantMessage.id, role |-> assistantMessage.role,
   content |-> assistantMessage.content, metadata |-> assistantMessage.metadata,
   serviceGroups |-> assistantMessage.serviceGroups,
   nextActions |-> assistantMessage.nextActions,
   needsIdentified |-> assistantMessage.needsIdentified, createdAt |-> now]

\* messages.find((msg) => msg.role === "user")?.content ?? userMessage.content
FirstUserContent(history, userMessage) ==
  IF \E i \in DOMAIN history : history[i].role = "user"
  THEN history[CHOOSE i \in DOMAIN history :
                 /\ history[i].role = "user"
                 /\ \A j \in 1..(i - 1) : history[j].role # "user"].content
  ELSE userMessage.content

\* nextSession without the user message of the turn
nextSession_OmitsUserMessage(prev, turn, maybeSessionId, assistantMessages, now) ==
  LET found == HasSession(prev, maybeSessionId)
      existing == FindSession(prev, maybeSessionId)
  IN [sessionId |-> maybeSessionId,
      title |-> IF found THEN existing.title
                ELSE getDefaultSessionTitle(FirstUserContent(turn.messages, turn.userMessage)),
      messages |-> (IF found THEN existing.messages ELSE <<>>)
                   \o [i \in DOMAIN assistantMessages |->
                         StoredAssistantMessage(assistantMessages[i], now)],
      createdAt |-> IF found THEN existing.createdAt ELSE now,
      updatedAt |-> now]

\* nextSession without the messages the session held
nextSession_DropsExisting(prev, turn, maybeSessionId, assistantMessages, now) ==
  LET found == HasSession(prev, maybeSessionId)
      existing == FindSession(prev, maybeSessionId)
  IN [sessionId |-> maybeSessionId,
      title |-> IF found THEN existing.title
                ELSE getDefaultSessionTitle(FirstUserContent(turn.messages, turn.userMessage)),
      messages |-> <<[id |-> turn.userMessage.id, role |-> "user",
                      content |-> turn.userMessage.content, createdAt |-> now]>>
                   \o [i \in DOMAIN assistantMessages |->
                         StoredAssistantMessage(assistantMessages[i], now)],
      createdAt |-> IF found THEN existing.createdAt ELSE now,
      updatedAt |-> now]

\* nextSession that takes createdAt from the clock also for a session the
\* store holds
nextSession_CreatedNow(prev, turn, maybeSessionId, assistantMessages, now) ==
  LET found == HasSession(prev, maybeSessionId)
      existing == FindSession(prev, maybeSessionId)
      storedUserMessage ==
        [id |-> turn.userMessage.id, role |-> "user",
         content |-> turn.userMessage.content, createdAt |-> now]
  IN [sessionId |-> maybeSessionId,
      title |-> IF found THEN existing.title
                ELSE getDefaultSessionTitle(FirstUserContent(turn.messages, turn.userMessage)),
      messages |-> (IF found THEN existing.messages ELSE <<>>)
                   \o <<storedUserMessage>>
                   \o [i \in DOMAIN assistantMessages |->
                         StoredAssistantMessage(assistantMessages[i], now)],
      createdAt |-> now,
      updatedAt |-> now]

\* The session the success updater builds
nextSession(prev, turn, maybeSessionId, assistantMessages, now) ==
  LET found == HasSession(prev, maybeSessionId)
      existing == FindSession(prev, maybeSessionId)
      storedUserMessage ==
        [id |-> turn.userMessage.id, role |-> "user",
         content |-> turn.userMessage.content, createdAt |-> now]
  IN [sessionId |-> maybeSessionId,
      title |-> IF found THEN existing.title
                ELSE getDefaultSessionTitle(FirstUserContent(turn.messages, turn.userMessage)),
      messages |-> (IF found THEN existing.messages ELSE <<>>)
                   \o <<storedUserMessage>>
                   \o [i \in DOMAIN assistantMessages |->
                         StoredAssistantMessage(assistantMessages[i], now)],
      createdAt |-> IF found THEN existing.createdAt ELSE now,
      updatedAt |-> now]

\* WithoutLoading without the filter
WithoutLoading_KeepsAll(prev, id) == prev

WithoutLoading(prev, id) == SelectSeq(prev, LAMBDA message : message.id # id)

\* fetch resolved with a 2xx status and a payload the handler gets through;
\* today: what new Date() reads; storageThrows: the write to the slot raises
ResponseSuccessOf(turn, payload, today, storageThrows) ==
  LET maybeSessionId == payload.sessionId
      assistantMessages == AssistantMessages(turn.userMessage, payload.newMessages)
      now == ToISOString(today)
      stores == maybeSessionId # NoSession
      nextSessions ==
        IF stores
        THEN sortSessionsByUpdated(
               upsertSession(storedSessions,
                             nextSession(storedSessions, turn, maybeSessionId,
                                         assistantMessages, now)))
        ELSE storedSessions
  IN
  /\ turn \in inflight
  /\ stores \/ ~storageThrows
  /\ Render([Live EXCEPT
               !.sessionId = IF stores THEN maybeSessionId ELSE sessionId,
               !.messages = WithoutLoading(messages, loadingMessageId(turn.userMessage))
                            \o assistantMessages,
               !.storedSessions = nextSessions])
  /\ slot' = IF stores
             THEN writeStoredSessions(slot, nextSessions, storageThrows)
             ELSE slot
  /\ event' = [op |-> "success", uuid |-> turn.userMessage.id[1]]
  /\ inflight' = inflight \ {turn}
  /\ isPending' = (inflight' # {})
  /\ clock' = today
  /\ UNCHANGED <<agent, nextUuid, call, outcome>>

ResponseSuccess ==
  \E turn \in inflight, payload \in Payloads, today \in Later, storageThrows \in BOOLEAN :
    ResponseSuccessOf(turn, payload, today, storageThrows)

\* ResponseFailureOf that leaves the transition pending
ResponseFailureOf_StaysPending(turn, maybeSessionId) ==
  /\ turn \in inflight
  /\ Render([Live EXCEPT
               !.sessionId = IF maybeSessionId # NoSession THEN maybeSessionId ELSE sessionId,
               !.messages = Append(WithoutLoading(messages, loadingMessageId(turn.userMessage)),
                                   ErrorMessage(turn.userMessage))])
  /\ event' = [op |-> "failure", uuid |-> turn.userMessage.id[1]]
  /\ inflight' = inflight \ {turn}
  /\ UNCHANGED <<agent, isPending, slot, clock, nextUuid, call, outcome>>

\* fetch rejected, the status was not 2xx, the body was no JSON (the catch
\* runs with no state set: maybeSessionId is NoSession), or the payload broke
\* the handler after setSessionId(payload.sessionId): newMessages that is no
\* array, or holds null
ResponseFailureOf(turn, maybeSessionId) ==
  /\ turn \in inflight
  /\ Render([Live EXCEPT
               !.sessionId = IF maybeSessionId # NoSession THEN maybeSessionId ELSE sessionId,
               !.messages = Append(WithoutLoading(messages, loadingMessageId(turn.userMessage)),
                                   ErrorMessage(turn.userMessage))])
  /\ event' = [op |-> "failure", uuid |-> turn.userMessage.id[1]]
  /\ inflight' = inflight \ {turn}
  /\ isPending' = (inflight' # {})
  /\ UNCHANGED <<agent, slot, clock, nextUuid, call, outcome>>

ResponseFailure ==
  \E turn \in inflight, maybeSessionId \in SessionIds \cup {NoSession} :
    ResponseFailureOf(turn, maybeSessionId)

Next ==
  \/ SetInput
  \/ handleNewChat
  \/ SelectSession
  \/ SubmitForm
  \/ ResponseSuccess
  \/ ResponseFailure

Spec == Init /\ [][Next]_vars

\* The page when every fetch settles: await fetch(...) resolves or rejects
Settle == ResponseSuccess \/ ResponseFailure

SettlingSpec == Init /\ [][Next]_vars /\ WF_vars(Settle)

\* ------------------------------------ the page under the provider's agent
\* NEXT_PUBLIC_AGENT_URL: unset, empty, blank, or a URL between blanks
AgentUrlEnvs ==
  { Undef, Str(<<>>), Str(<<" ", " ">>),
    Str(<<" ", "https://agent.example/agui/run-agent", " ">>) }

Windows ==
  { NoWindow, BadLocation,
    Location("http:", "localhost", "3000"),
    Location("http:", "localhost", "8080"),
    Location("https:", "streetbot.example", "") }

\* The page starts on an empty slot, with the agent that the provider makes
\* of the environment
ProviderInit ==
  /\ call \in [ fn : {"AguiProvider"}, env : AgentUrlEnvs, window : Windows ]
  /\ agent = AguiProvider(call.env, call.window)
  /\ outcome = NotReturned
  /\ slot = Absent
  /\ LET live == Mounted(slot, FALSE) IN
       /\ messages = live.messages
       /\ sessionId = live.sessionId
       /\ storedSessions = live.storedSessions
       /\ input = live.input
       /\ hasInitializedSession = live.hasInitializedSession
       /\ event = [op |-> "mount"]
  /\ isPending = FALSE
  /\ inflight = {}
  /\ clock = 1
  /\ nextUuid = 1

ProviderSpec == ProviderInit /\ [][Next]_vars

\* ------------------------------------------- the functions, called on their own
MaxSessions == 2     \* length of a session list passed to the bucketer and the store
MaxSorted == 3       \* length of a session list passed to upsert and to the sort

\* The page state while a function is called on its own: nothing is mounted
Unmounted ==
  /\ agent = None
  /\ messages = <<>>
  /\ sessionId = NoSession
  /\ storedSessions = <<>>
  /\ input = <<>>
  /\ isPending = FALSE
  /\ hasInitializedSession = FALSE
  /\ inflight = {}
  /\ clock = 1
  /\ nextUuid = 1
  /\ event = [op |-> "mount"]

home == <<agent, messages, sessionId, storedSessions, input, isPending,
          hasInitializedSession, inflight, clock, nextUuid, event>>

\* The k-th session of a list passed to a function, last updated at the instant at
SessionAt(k, at) == OldSession(<<"s", k>>, -k, at)

\* The session lists of the given length whose k-th session is SessionAt(k, at)
\* for an instant at of the set
SessionLists(instants, length) ==
  { [k \in 1..length |-> SessionAt(k, at[k])] : at \in [1..length -> instants] }

SessionListsUpTo(instants, length) ==
  UNION { SessionLists(instants, n) : n \in 0..length }

\* The days bucketSessions is called on: 9 February 2024, 1 March 2024 (the
\* day after 29 February), 1 January 2025 and 4 January 2025
NowDays == {40, 60, 366, 369}

\* and the days of updatedAt, from the day of the call: tomorrow, today,
\* yesterday, two days, seven days, eight days and five weeks back
UpdatedDays == {1, 0, -1, -2, -7, -8, -35}

InstantsOf(days) == { day * DayLength + time : day \in days, time \in 0..(DayLength - 1) }

\* bucketSessions(sessions, now), the sessions updated on days around now
BucketCall(now, sessions) ==
  [fn |-> "bucketSessions", sessions |-> sessions, now |-> now]

UpdatedAround(now) == InstantsOf({ LocalDay(now) + d : d \in UpdatedDays })

\* What the slot can hold when the store is called
SlotTexts ==
  { Absent, EmptyText, MalformedText, NotAnArrayText, JSONStringify(<<SessionAt(3, 0)>>) }

\* readStoredSessions() on its own; stored: what the slot holds
LoadCalls ==
  [ fn : {"readStoredSessions"}, stored : SlotTexts, readThrows : BOOLEAN ]

\* writeStoredSessions(next), then readStoredSessions()
SaveCalls ==
  [ fn : {"writeStoredSessions"}, stored : SlotTexts,
    next : SessionListsUpTo({0, 1}, MaxSessions),
    writeThrows : BOOLEAN, readThrows : BOOLEAN ]

\* The session passed to upsertSession: one of the list, as a turn has
\* changed it, or a new one
Upserted(k, at) == [SessionAt(k, at) EXCEPT !.title = <<"n", "e", "w">>]

\* upsertSession(prev, nextSession), and the same followed by the sort
UpsertCalls ==
  [ fn : {"upsertSession", "upsertSorted"},
    sessions : SessionListsUpTo({0, 1}, MaxSorted),
    session : { Upserted(k, at) : k \in 1..(MaxSorted + 1), at \in {0, 1, 2} } ]

SortCalls ==
  [ fn : {"sortSessionsByUpdated"}, sessions : SessionListsUpTo({0, 1, 2}, MaxSorted) ]

\* What the user submits: a keyword of a group, in small or in capital
\* letters; one keyword after another, the second in capital letters; and
\* texts of every length up to five that hold no keyword
AllKeywords ==
  HousingKeywords \cup FoodKeywords \cup MedicalKeywords \cup EmploymentKeywords
    \cup LegalKeywords \cup MentalKeywords \cup TransportKeywords \cup HelpKeywords
    \cup NearMeKeywords

ToUpperChar(c) ==
  IF \E i \in DOMAIN LowerCase : LowerCase[i] = c
  THEN UpperCase[CHOOSE i \in DOMAIN LowerCase : LowerCase[i] = c]
  ELSE c

ToUpperCase(s) == [i \in DOMAIN s |-> ToUpperChar(s[i])]

SubmittedTexts ==
  AllKeywords
    \cup { ToUpperCase(kw) : kw \in AllKeywords }
    \cup { a \o <<" ">> \o ToUpperCase(b) : a, b \in AllKeywords }
    \cup SeqsUpTo({"z"}, 5) \cup { <<"Z">>, <<"Z", "z">> }

LoadingCalls == [ fn : {"getLoadingMessage"}, userMessage : SubmittedTexts ]

FunctionCalls ==
  LoadCalls \cup SaveCalls \cup UpsertCalls \cup SortCalls \cup LoadingCalls

FunctionInit ==
  /\ Unmounted
  /\ \/ call \in FunctionCalls
     \/ \E now \in InstantsOf(NowDays), length \in 0..MaxSessions :
          \E at \in [1..length -> UpdatedAround(now)] :
            call = BucketCall(now, [k \in 1..length |-> SessionAt(k, at[k])])
  /\ slot = IF "stored" \in DOMAIN call THEN call.stored ELSE Absent
  /\ outcome = NotReturned

Returns(value) ==
  /\ ~outcome.done
  /\ outcome' = [done |-> TRUE, value |-> value]

\* const sessionBuckets = bucketSessions(storedSessions)
CallBucketSessions ==
  /\ call.fn = "bucketSessions"
  /\ Returns(bucketSessions(call.sessions, call.now))
  /\ UNCHANGED <<home, slot, call>>

\* writeStoredSessions(next)
Save ==
  /\ call.fn = "writeStoredSessions"
  /\ event.op = "mount"
  /\ ~outcome.done
  /\ slot' = writeStoredSessions(slot, call.next, call.writeThrows)
  /\ event' = [op |-> "save"]
  /\ UNCHANGED <<agent, messages, sessionId, storedSessions, input, isPending,
                 hasInitializedSession, inflight, clock, nextUuid, call, outcome>>

\* readStoredSessions(), on the slot as it is or after the write
Load ==
  /\ \/ call.fn = "readStoredSessions"
     \/ call.fn = "writeStoredSessions" /\ event.op = "save"
  /\ Returns(readStoredSessions(slot, call.readThrows))
  /\ UNCHANGED <<home, slot, call>>

CallUpsertSession ==
  /\ call.fn = "upsertSession"
  /\ ~outcome.done
  /\ outcome' = [done |-> TRUE,
                 value |-> upsertSession(call.sessions, call.session),
                 sessions |-> upsertSessionLeaves(call.sessions, call.session)]
  /\ UNCHANGED <<home, slot, call>>

\* upsertSession(prev, nextSession).sort(...) of the success updater
CallUpsertSorted ==
  /\ call.fn = "upsertSorted"
  /\ Returns(sortSessionsByUpdated(upsertSession(call.sessions, call.session)))
  /\ UNCHANGED <<home, slot, call>>

CallSortSessionsByUpdated ==
  /\ call.fn = "sortSessionsByUpdated"
  /\ ~outcome.done
  /\ outcome' = [done |-> TRUE,
                 value |-> sortSessionsByUpdated(call.sessions),
                 sessions |-> sortSessionsByUpdatedLeaves(call.sessions)]
  /\ UNCHANGED <<home, slot, call>>

\* const dynamicLoadingMessage = getLoadingMessage(userMessage.content)
CallGetLoadingMessage ==
  /\ call.fn = "getLoadingMessage"
  /\ Returns(getLoadingMessage(call.userMessage))
  /\ UNCHANGED <<home, slot, call>>

FunctionNext ==
  \/ CallBucketSessions
  \/ CallGetLoadingMessage
  \/ CallUpsertSession
  \/ CallUpsertSorted
  \/ CallSortSessionsByUpdated
  \/ Save
  \/ Load

FunctionSpec == FunctionInit /\ [][FunctionNext]_vars

\* ------------------------------------------------------------- the claims
\* The sessions the slot holds, as a load would return them
Persisted == readStoredSessions(slot, FALSE)

DistinctSessionIds(sessions) ==
  \A i, j \in DOMAIN sessions : sessions[i].sessionId = sessions[j].sessionId => i = j

DistinctMessageIds(session) ==
  \A i, j \in DOMAIN session.messages :
    session.messages[i].id = session.messages[j].id => i = j

SessionIdsOf(sessions) == { sessions[i].sessionId : i \in DOMAIN sessions }

IsPrefix(a, b) == Len(a) <= Len(b) /\ SubSeq(b, 1, Len(a)) = a

\* C1: from a store whose sessions have distinct ids, the in-memory session
\* list and the persisted slot each hold at most one Session per sessionId in
\* every reachable state.
C1_OneSessionPerId ==
  DistinctSessionIds(storedSessions) /\ DistinctSessionIds(Persisted)

\* C1 witness: a success has upserted a session over the entry it already had
\* (two sessions were stored, one of them grew by a turn, two are stored)
C1_Witness ==
  /\ event.op = "success"
  /\ Len(storedSessions) = 2
  /\ Len(Persisted) = 2
  /\ \E i \in DOMAIN storedSessions :
       /\ Len(storedSessions[i].messages) > 2
       /\ storedSessions[i].messages[Len(storedSessions[i].messages)].id[1] = event.uuid

\* C2: no persisted Session holds two messages with the same id, in
\* particular after a turn submitted on a conversation that has a persisted
\* Session is answered successfully with that sessionId.
C2_UniqueMessageIds ==
  /\ \A i \in DOMAIN storedSessions : DistinctMessageIds(storedSessions[i])
  /\ \A i \in DOMAIN Persisted : DistinctMessageIds(Persisted[i])

\* C6: at most one remote request is in flight in every reachable state, and
\* while one is in flight the controller is Pending, which keeps the form from
\* being submitted.
C6_OneRequestInFlight ==
  /\ Cardinality(inflight) <= 1
  /\ inflight # {} => (isPending /\ ~SendEnabled)

\* C6 witness: a request is in flight while the text field holds a text that
\* could otherwise be sent
C6_Witness ==
  /\ Cardinality(inflight) = 1
  /\ Trim(input) # <<>>
  /\ event.op = "input"

\* The positions of the session s in a list
PositionsOf(sessions, s) == { i \in DOMAIN sessions : sessions[i].sessionId = s }

\* What the store must hold of the turn answered by payload: the user
\* message, then one message per outcome message, in the order outcome
HoldsTurn(stored, turn, payload) ==
  /\ Len(stored) = 1 + Len(payload.newMessages)
  /\ stored[1].id = turn.userMessage.id
  /\ stored[1].role = "user"
  /\ stored[1].content = turn.userMessage.content
  /\ \A i \in DOMAIN payload.newMessages :
       LET returned == payload.newMessages[i] IN
       /\ stored[i + 1].id = <<turn.userMessage.id[1], "assistant", i - 1>>
       /\ stored[i + 1].role \in {"user", "assistant"}
       /\ returned.role \in {"user", "assistant"} => stored[i + 1].role = returned.role
       /\ stored[i + 1].content =
            (IF "content" \in DOMAIN returned THEN extractText(returned.content) ELSE <<>>)
       /\ Field(stored[i + 1], "metadata") = Field(returned, "metadata")

HasLiveId(live, id) == \E i \in DOMAIN live : live[i].id = id

\* C4: when the remote call of a turn fails, the placeholder of the turn is
\* removed from the live messages, exactly one system-role error message is
\* appended, and the session store is as it was right after the submit step:
\* the failure changes neither the session list nor the slot, and nothing
\* changes them while the request is outstanding.
C4_FailureLeavesStore ==
  [][ /\ \A turn \in inflight, maybeSessionId \in SessionIds \cup {NoSession} :
           ResponseFailureOf(turn, maybeSessionId)
           => LET kept == SelectSeq(messages,
                                    LAMBDA m : m.id # <<turn.userMessage.id[1], "loading">>)
              IN /\ ~HasLiveId(messages', <<turn.userMessage.id[1], "loading">>)
                 /\ Len(messages') = Len(kept) + 1
                 /\ SubSeq(messages', 1, Len(kept)) = kept
                 /\ messages'[Len(messages')].role = "system"
                 /\ messages'[Len(messages')].id = <<turn.userMessage.id[1], "error">>
                 /\ storedSessions' = storedSessions
                 /\ slot' = slot
      /\ (inflight # {} /\ inflight' = inflight)
           => (storedSessions' = storedSessions /\ slot' = slot)
    ]_vars

\* C4 witness: a turn submitted on a persisted session has failed; the store
\* holds the user message persisted at submit time, the live list ends with
\* the error message and holds no placeholder
C4_Witness ==
  /\ event.op = "failure"
  /\ \E i \in DOMAIN storedSessions :
       storedSessions[i].messages[Len(storedSessions[i].messages)].id = <<event.uuid>>
  /\ HasLiveId(messages, <<event.uuid>>)
  /\ messages[Len(messages)].id = <<event.uuid, "error">>
  /\ ~HasLiveId(messages, <<event.uuid, "loading">>)

\* C5: when a non-empty text is submitted while no agent is configured,
\* exactly one system-role message is appended to the live messages, no
\* network call is made, and the in-memory session list and the slot are
\* unchanged, whether or not the conversation has a current persisted session.
C5_NoAgentLeavesStore ==
  [][ (agent = None /\ nextUuid' # nextUuid)
      => /\ Cardinality({ i \in DOMAIN messages' : messages'[i].role = "system" })
              = Cardinality({ i \in DOMAIN messages : messages[i].role = "system" }) + 1
         /\ inflight' = inflight
         /\ storedSessions' = storedSessions
         /\ slot' = slot
    ]_vars

\* A message made from a response: its id is `${uuid}-assistant-${index}`
FromResponse(message) == Len(message.id) = 3 /\ message.id[2] = "assistant"

\* In list, every message made from a turn's response comes after the user
\* message of that turn
UserMessageFirst(list) ==
  \A i \in DOMAIN list :
    FromResponse(list[i]) => \E j \in 1..(i - 1) : list[j].id = <<list[i].id[1]>>

\* C7: in the live message list and in every persisted Session, the user
\* message of a turn is present and comes before every message made from that
\* turn's response, in every state reached by any interleaving of submit,
\* response, New chat and session-select steps.
C7_UserMessageFirst ==
  /\ UserMessageFirst(messages)
  /\ \A i \in DOMAIN storedSessions : UserMessageFirst(storedSessions[i].messages)
  /\ \A i \in DOMAIN Persisted : UserMessageFirst(Persisted[i].messages)

\* C8: no step removes a Session: the session ids in the in-memory list and
\* in the slot never shrink, and New chat leaves both unchanged.
C8_NoSessionRemoved ==
  [][ /\ SessionIdsOf(storedSessions) \subseteq SessionIdsOf(storedSessions')
      /\ SessionIdsOf(Persisted) \subseteq SessionIdsOf(Persisted')
      /\ handleNewChat => (storedSessions' = storedSessions /\ slot' = slot)
    ]_vars

\* C8 witness: New chat has run on a store of two sessions, one of which a
\* turn had been persisted to, and the conversation is cleared while the
\* sessions are all there
C8_Witness ==
  /\ event.op = "newChat"
  /\ messages = <<>>
  /\ sessionId = NoSession
  /\ Len(storedSessions) = 2
  /\ Len(Persisted) = 2
  /\ \E i \in DOMAIN storedSessions : Len(storedSessions[i].messages) > 2

\* The sessions of after that are new or hold other messages than in before
Grown(before, after) ==
  { s \in SessionIdsOf(after) :
      \/ s \notin SessionIdsOf(before)
      \/ FindSession(after, s).messages # FindSession(before, s).messages }

UpdatedAtKept(before, after, now) ==
  /\ \A s \in SessionIdsOf(before) \cap SessionIdsOf(after) :
       GetTime(FindSession(after, s).updatedAt) >= GetTime(FindSession(before, s).updatedAt)
  /\ \A s \in Grown(before, after) : FindSession(after, s).updatedAt = ToISOString(now)

\* C9: under a non-decreasing clock the updatedAt of a stored Session never
\* decreases, and every step that appends messages to a stored Session (the
\* persist at submit time, the upsert at success time) sets its updatedAt to
\* the time of the step.
C9_UpdatedAtMonotone ==
  [][ /\ clock' >= clock
      /\ UpdatedAtKept(storedSessions, storedSessions', clock')
      /\ \A s \in SessionIdsOf(Persisted) \cap SessionIdsOf(Persisted') :
           GetTime(FindSession(Persisted', s).updatedAt)
             >= GetTime(FindSession(Persisted, s).updatedAt)
    ]_vars

\* C9 witness: a submit has persisted the user message to a session created
\* earlier, whose updatedAt now reads the later time of the submit
C9_Witness ==
  /\ event.op = "submit"
  /\ \E i \in DOMAIN storedSessions :
       LET session == storedSessions[i] IN
       /\ session.messages[Len(session.messages)].id = <<event.uuid>>
       /\ GetTime(session.updatedAt) = clock
       /\ GetTime(session.updatedAt) > GetTime(session.createdAt)

AppendOnly(before, after) ==
  \A i \in DOMAIN before :
    \E j \in DOMAIN after :
      /\ after[j].sessionId = before[i].sessionId
      /\ IsPrefix(before[i].messages, after[j].messages)

\* C10: stored messages are append-only: each step leaves the message
\* sequence of every stored Session as a prefix of its new message sequence,
\* under the same sessionId, in the in-memory list and in the slot.
C10_AppendOnly ==
  [][ AppendOnly(storedSessions, storedSessions') /\ AppendOnly(Persisted, Persisted') ]_vars

\* C10 witness: a success has extended a session that held messages before
\* the turn: they are followed by the messages of the turn
C10_Witness ==
  /\ event.op = "success"
  /\ \E i \in DOMAIN storedSessions :
       LET stored == storedSessions[i].messages IN
       /\ Len(stored) > 3
       /\ stored[1].id[1] # event.uuid
       /\ stored[Len(stored)].id = <<event.uuid, "assistant", 0>>

\* The function fn was called on its own and has returned
Returned(fn) == call.fn = fn /\ outcome.done

\* How often x occurs in a sequence
Count(seq, x) == Cardinality({ i \in DOMAIN seq : seq[i] = x })

Range(seq) == { seq[i] : i \in DOMAIN seq }

\* The monthly groups of the given keys, one after the other
RECURSIVE MonthlyGroups(_, _)
MonthlyGroups(monthly, keys) ==
  IF keys = {} THEN <<>>
  ELSE LET key == CHOOSE k \in keys : TRUE
       IN monthly[key] \o MonthlyGroups(monthly, keys \ {key})

\* All that the buckets hold
Bucketed(buckets) ==
  buckets.today \o buckets.yesterday \o buckets.last7Days
    \o MonthlyGroups(buckets.monthly, DOMAIN buckets.monthly)

\* C11: bucketSessions is a partition: each input session appears exactly
\* once in today, yesterday, last7Days and the monthly groups taken together,
\* and nothing else appears there, also for an updatedAt at a day boundary,
\* for equal updatedAt values and for an updatedAt later than now.
C11_BucketsPartition ==
  Returned("bucketSessions")
  => /\ Len(Bucketed(outcome.value)) = Len(call.sessions)
     /\ \A x \in Range(call.sessions) \cup Range(Bucketed(outcome.value)) :
          Count(Bucketed(outcome.value), x) = Count(call.sessions, x)

\* C11 witness: two sessions were bucketed, one updated after now at the
\* first instant of the next day, the other at the last instant of a day
\* more than a week back
C11_Witness ==
  /\ Returned("bucketSessions")
  /\ Len(call.sessions) = 2
  /\ \E i, j \in DOMAIN call.sessions :
       /\ DateOf(call.sessions[i].updatedAt) > call.now
       /\ TimeInDay(DateOf(call.sessions[i].updatedAt)) = 0
       /\ LocalDay(DateOf(call.sessions[j].updatedAt)) < LocalDay(call.now) - 7
       /\ TimeInDay(DateOf(call.sessions[j].updatedAt)) = DayLength - 1
  /\ Len(outcome.value.last7Days) = 1
  /\ DOMAIN outcome.value.monthly # {}

\* The bucket of a session by the rules of the bucketer, on day numbers
RuleOf(session, now) ==
  LET updatedAt == DateOf(session.updatedAt) IN
  IF LocalDay(updatedAt) = LocalDay(now) THEN "today"
  ELSE IF LocalDay(updatedAt) = LocalDay(now) - 1 THEN "yesterday"
  ELSE IF updatedAt >= now - 7 * DayLength THEN "last7Days"
  ELSE "monthly"

\* YYYY-MM for the year y and the month number mm (1 to 12)
YearMonth(y, mm) ==
  << Digit(y \div 1000), Digit((y \div 100) % 10), Digit((y \div 10) % 10), Digit(y % 10),
     "-", Digit(mm \div 10), Digit(mm % 10) >>

\* The year and the month number of a day, counted from January 2024 by the
\* lengths of the months
RECURSIVE YearMonthFrom(_, _, _)
YearMonthFrom(day, y, mm) ==
  LET length == DaysInMonth(y, mm - 1) IN
  IF day < length THEN YearMonth(y, mm)
  ELSE IF mm = 12 THEN YearMonthFrom(day - length, y + 1, 1)
  ELSE YearMonthFrom(day - length, y, mm + 1)

MonthKeyOf(session) == YearMonthFrom(LocalDay(DateOf(session.updatedAt)), 2024, 1)

\* C12: bucketSessions puts each session in the bucket of the first rule it
\* matches: today iff updatedAt is on the local calendar day of now, else
\* yesterday iff it is on the day before, else last7Days iff updatedAt >=
\* now - 7 days, else the monthly group keyed by the YYYY-MM of updatedAt;
\* each bucket keeps the input order.
C12_FirstMatchingRule ==
  Returned("bucketSessions")
  => LET ruled(rule) == SelectSeq(call.sessions, LAMBDA x : RuleOf(x, call.now) = rule)
         monthly == ruled("monthly")
     IN /\ outcome.value.today = ruled("today")
        /\ outcome.value.yesterday = ruled("yesterday")
        /\ outcome.value.last7Days = ruled("last7Days")
        /\ DOMAIN outcome.value.monthly = { MonthKeyOf(x) : x \in Range(monthly) }
        /\ \A key \in DOMAIN outcome.value.monthly :
             outcome.value.monthly[key] = SelectSeq(monthly, LAMBDA x : MonthKeyOf(x) = key)

\* C12 witness: on the first day of a month, a session updated on the last
\* day of the month before, later in the day than now, is in yesterday, and
\* a session updated five weeks back is in a monthly group
C12_Witness ==
  /\ Returned("bucketSessions")
  /\ getDate(call.now) = 1
  /\ Len(outcome.value.yesterday) = 1
  /\ TimeInDay(DateOf(outcome.value.yesterday[1].updatedAt)) > TimeInDay(call.now)
  /\ DOMAIN outcome.value.monthly # {}

\* Two objects hold the same under every key (a key that is missing reads
\* undefined, as a key holding undefined does)
SameObject(a, b) == \A key \in DOMAIN a \cup DOMAIN b : Field(a, key) = Field(b, key)

SameSession(a, b) ==
  /\ a.sessionId = b.sessionId
  /\ a.title = b.title
  /\ a.createdAt = b.createdAt
  /\ a.updatedAt = b.updatedAt
  /\ Len(a.messages) = Len(b.messages)
  /\ \A i \in DOMAIN a.messages : SameObject(a.messages[i], b.messages[i])

SameSessions(a, b) ==
  /\ Len(a) = Len(b)
  /\ \A i \in DOMAIN a : SameSession(a[i], b[i])

LoadReturns == (call.fn = "readStoredSessions" /\ ~outcome.done) => ENABLED Load

\* C14: load() never raises and leaves the slot as it is; it returns the
\* empty sequence when the slot is absent or empty, when its content is no
\* JSON, when the parsed value is no array, and when the storage raises.
C14_LoadNeverRaises ==
  /\ LoadReturns
  /\ Returned("readStoredSessions")
       => /\ slot = call.stored
          /\ ( \/ call.readThrows
               \/ call.stored \in {Absent, EmptyText, MalformedText, NotAnArrayText} )
             => outcome.value = <<>>
          /\ ( ~call.readThrows /\ call.stored.kind = "array" )
             => outcome.value = call.stored.items

\* C14 witness: the slot held JSON that is no array, the load returned
C14_Witness ==
  /\ Returned("readStoredSessions")
  /\ call.stored = NotAnArrayText
  /\ ~call.readThrows
  /\ outcome.value = <<>>

LastMessage(session) == session.messages[Len(session.messages)]

\* The slot does not hold what the session list in memory holds
Stale == slot # JSONStringify(storedSessions)

\* C15: a write to the slot that raises is swallowed and takes nothing back:
\* the step leaves the slot as it was and the session list in memory takes
\* the value the step computed (the user message persisted at submit time,
\* the session upserted at success time); and while the slot is stale, a step
\* builds on the list in memory (it keeps every stored message) and a write
\* that goes through stores that list.
C15_FailedWriteKeepsMemory ==
  [][ /\ event'.op = "submit" =>
           \A today \in Later :
             ( /\ Trim(input) # <<>>
               /\ SubmitPersists(storedSessions, sessionId, [id |-> <<nextUuid>>])
               /\ handleSubmitAt(today, TRUE) )
             => /\ slot' = slot
                /\ HasSession(storedSessions', sessionId)
                /\ LastMessage(FindSession(storedSessions', sessionId)).id = <<nextUuid>>
                /\ AppendOnly(storedSessions, storedSessions')
      /\ event'.op = "success" =>
           \A turn \in inflight, payload \in Payloads, today \in Later :
             ( /\ payload.sessionId # NoSession
               /\ clock' = today
               /\ ResponseSuccessOf(turn, payload, today, TRUE) )
             => /\ slot' = slot
                /\ HasSession(storedSessions', payload.sessionId)
                /\ HasMessageId(FindSession(storedSessions', payload.sessionId),
                                turn.userMessage.id)
                /\ FindSession(storedSessions', payload.sessionId).updatedAt = ToISOString(today)
                /\ AppendOnly(storedSessions, storedSessions')
      /\ ((storedSessions' # storedSessions \/ slot' # slot) /\ Stale)
           => /\ AppendOnly(storedSessions, storedSessions')
              /\ slot' # slot => slot' = JSONStringify(storedSessions')
    ]_vars

\* C15 witness: two turns were persisted to a session while every write
\* raised: the list in memory holds both user messages, the slot neither
C15_Witness ==
  /\ event.op = "submit"
  /\ event.uuid = 2
  /\ \E i \in DOMAIN storedSessions, j \in DOMAIN Persisted :
       /\ storedSessions[i].sessionId = Persisted[j].sessionId
       /\ HasMessageId(storedSessions[i], <<1>>)
       /\ HasMessageId(storedSessions[i], <<2>>)
       /\ ~HasMessageId(Persisted[j], <<1>>)
       /\ ~HasMessageId(Persisted[j], <<2>>)

\* C16: upsert(sessions, session): if no entry has the id of session the
\* result is sessions with session appended at the end; otherwise it is as
\* long as sessions, has session at the position of the entry with that id
\* and every other entry unchanged in its position; the array passed in is
\* as it was.
C16_UpsertAppendsOrReplaces ==
  Returned("upsertSession")
  => LET sessions == call.sessions
         session == call.session
         result == outcome.value
     IN /\ outcome.sessions = sessions
        /\ (\A i \in DOMAIN sessions : sessions[i].sessionId # session.sessionId)
             => /\ Len(result) = Len(sessions) + 1
                /\ \A i \in DOMAIN sessions : result[i] = sessions[i]
                /\ result[Len(result)] = session
        /\ (\E i \in DOMAIN sessions : sessions[i].sessionId = session.sessionId)
             => /\ Len(result) = Len(sessions)
                /\ \A i \in DOMAIN sessions :
                     result[i] = IF sessions[i].sessionId = session.sessionId
                                 THEN session ELSE sessions[i]

\* C16 witness: a session took the place of the first of three entries
C16_Witness ==
  /\ Returned("upsertSession")
  /\ Len(call.sessions) = 3
  /\ call.sessions[1].sessionId = call.session.sessionId
  /\ call.sessions[1] # call.session
  /\ outcome.value[1] = call.session
  /\ Len(outcome.value) = 3

NewestFirst(sessions) ==
  \A i, j \in DOMAIN sessions :
    i < j => GetTime(sessions[i].updatedAt) >= GetTime(sessions[j].updatedAt)

\* C17: for sessions with distinct ids and any session x, the sort of
\* upsert(sessions, x) holds exactly one entry per session id of sessions
\* and x, in non-increasing order of updatedAt.
C17_UpsertSortedOnePerId ==
  (Returned("upsertSorted") /\ DistinctSessionIds(call.sessions))
  => /\ DistinctSessionIds(outcome.value)
     /\ SessionIdsOf(outcome.value) = SessionIdsOf(call.sessions) \cup {call.session.sessionId}
     /\ Count(outcome.value, call.session) = 1
     /\ NewestFirst(outcome.value)

\* C17 witness: the last and oldest of three entries was replaced by a newer
\* session of the same id, which now comes first
C17_Witness ==
  /\ Returned("upsertSorted")
  /\ Len(call.sessions) = 3
  /\ call.sessions[3].sessionId = call.session.sessionId
  /\ \A i \in DOMAIN call.sessions :
       GetTime(call.session.updatedAt) > GetTime(call.sessions[i].updatedAt)
  /\ GetTime(call.sessions[1].updatedAt) > GetTime(call.sessions[3].updatedAt)
  /\ Len(outcome.value) = 3
  /\ outcome.value[1] = call.session

\* The place of the session x in a list that holds it once
PlaceOf(sessions, x) == CHOOSE i \in DOMAIN sessions : sessions[i] = x

\* C18: sortByRecency returns a permutation of its input, leaves the array
\* passed in as it was, and is stable: two sessions with equal updatedAt
\* come in the result in the order they have in the input (and the call
\* returns, with equal timestamps as with others).
C18_SortStablePermutation ==
  /\ (call.fn = "sortSessionsByUpdated" /\ ~outcome.done) => ENABLED CallSortSessionsByUpdated
  /\ Returned("sortSessionsByUpdated")
       => LET sessions == call.sessions
              result == outcome.value
          IN /\ outcome.sessions = sessions
             /\ Len(result) = Len(sessions)
             /\ \A x \in Range(sessions) \cup Range(result) :
                  Count(result, x) = Count(sessions, x)
             /\ \A i, j \in DOMAIN sessions :
                  (i < j /\ sessions[i].updatedAt = sessions[j].updatedAt)
                  => PlaceOf(result, sessions[i]) < PlaceOf(result, sessions[j])

\* C18 witness: the first and the last of three sessions have the same
\* updatedAt and the one between them is newer: it comes first, and the two
\* follow in their input order
C18_Witness ==
  /\ Returned("sortSessionsByUpdated")
  /\ Len(call.sessions) = 3
  /\ call.sessions[1].updatedAt = call.sessions[3].updatedAt
  /\ GetTime(call.sessions[2].updatedAt) > GetTime(call.sessions[1].updatedAt)
  /\ outcome.value = <<call.sessions[2], call.sessions[1], call.sessions[3]>>

\* The keyword groups in their order of priority, each with its text
PriorityOrder ==
  << [keywords |-> HousingKeywords, text |-> "Searching for housing options near you..."],
     [keywords |-> FoodKeywords, text |-> "Finding food resources in your area..."],
     [keywords |-> MedicalKeywords, text |-> "Looking up healthcare services for you..."],
     [keywords |-> EmploymentKeywords, text |-> "Searching for employment resources..."],
     [keywords |-> LegalKeywords, text |-> "Finding legal assistance options..."],
     [keywords |-> MentalKeywords, text |-> "Locating mental health support services..."],
     [keywords |-> TransportKeywords, text |-> "Checking transportation options..."],
     [keywords |-> HelpKeywords, text |-> "Finding the best support options for you..."],
     [keywords |-> NearMeKeywords, text |-> "Searching for nearby services..."] >>

GenericTexts ==
  << "Analyzing your request...", "Looking up available resources...",
     "Checking what help is available...", "Finding services that match your needs..." >>

\* The characters a and b are the same letter, in either case
SameLetter(a, b) ==
  \/ a = b
  \/ \E i \in DOMAIN UpperCase :
       {a, b} = {UpperCase[i], LowerCase[i]}

\* The keyword occurs in the text, whatever the case of the letters
Occurs(keyword, text) ==
  \E at \in 0..(Len(text) - Len(keyword)) :
    \A k \in DOMAIN keyword : SameLetter(text[at + k], keyword[k])

Matching(text) ==
  { g \in DOMAIN PriorityOrder : \E kw \in PriorityOrder[g].keywords : Occurs(kw, text) }

\* C19: the placeholder text is that of the first group, in the order
\* housing, food, medical, employment, legal, mental health, transportation,
\* generic help, near-me, one of whose keywords occurs in the submitted text,
\* whatever the case of its letters; when none does, it is the generic text
\* at index length(text) mod 4.
C19_FirstMatchingGroupWins ==
  Returned("getLoadingMessage")
  => LET text == call.userMessage
         matching == Matching(text)
     IN outcome.value =
          IF matching # {}
          THEN <<PriorityOrder[CHOOSE g \in matching : \A h \in matching : g <= h].text>>
          ELSE <<GenericTexts[(Len(text) % 4) + 1]>>

\* C19 witness: "nearby SHELTER" got the housing text, although the near-me
\* keyword comes first in it and the housing keyword is in capital letters
C19_Witness ==
  /\ Returned("getLoadingMessage")
  /\ call.userMessage = <<"n", "e", "a", "r", "b", "y", " ", "S", "H", "E", "L", "T", "E", "R">>
  /\ outcome.value = <<"Searching for housing options near you...">>

\* No agent URL is supplied: NEXT_PUBLIC_AGENT_URL is unset or blank
NoAgentUrlSupplied ==
  /\ call.fn = "AguiProvider"
  /\ (call.env = Undef \/ Trim(call.env.v) = <<>>)

\* The agent URL that goes with the location of the page: port 8000 of the
\* host for a page served on port 3000, else the origin of the page
UrlFor(window) ==
  IF window.port = "3000"
    THEN <<window.protocol, "//", window.hostname, ":", "8000", "/agui/run-agent">>
  ELSE IF window.port = ""
    THEN <<window.protocol, "//", window.hostname, "/agui/run-agent">>
  ELSE <<window.protocol, "//", window.hostname, ":", window.port, "/agui/run-agent">>

\* C20 as stated: when no agent URL is supplied (NEXT_PUBLIC_AGENT_URL
\* unset or blank), the provider yields no agent, and a submission takes the
\* no-agent path: it appends the missing-agent message and issues no network
\* call.
C20_NoUrlNoAgent ==
  [][ (NoAgentUrlSupplied /\ event'.op = "submit")
      => /\ agent = None
         /\ inflight' = inflight
         /\ messages'[Len(messages')].id = <<nextUuid, "missing-agent">>
    ]_vars

\* C20 amended: the provider yields no agent exactly when no agent URL is
\* supplied and none can be derived from the location of the page (there is
\* no window, or its location does not parse); then a submission takes the
\* no-agent path and issues no network call. With no URL supplied and a
\* location that parses, the agent has the URL derived from it, with a URL
\* supplied it has that URL trimmed, and a submission issues a network call.
C20_NoUrlNoLocationNoAgent ==
  [][ call.fn = "AguiProvider"
      => /\ agent = None <=> (NoAgentUrlSupplied /\ call.window.kind # "url")
         /\ (NoAgentUrlSupplied /\ call.window.kind = "url")
              => agent = [url |-> UrlFor(call.window)]
         /\ ~NoAgentUrlSupplied
              => /\ agent = [url |-> Trim(call.env.v)]
                 /\ ~IsWhite(agent.url[1]) /\ ~IsWhite(agent.url[Len(agent.url)])
         /\ event'.op = "submit"
              => IF agent = None
                 THEN /\ inflight' = inflight
                      /\ messages'[Len(messages')].id = <<nextUuid, "missing-agent">>
                      /\ messages'[Len(messages')].role = "system"
                 ELSE /\ Cardinality(inflight') = Cardinality(inflight) + 1
                      /\ messages'[Len(messages')].id = <<nextUuid, "loading">>
    ]_vars

\* C20 witness: the variable is blank and the location of the page does not
\* parse; a submission has got the missing-agent message and no request is
\* out
C20_Witness ==
  /\ call.fn = "AguiProvider"
  /\ call.env = Str(<<" ", " ">>)
  /\ call.window = BadLocation
  /\ agent = None
  /\ event.op = "submit"
  /\ messages[Len(messages)].id = <<event.uuid, "missing-agent">>
  /\ inflight = {}

\* The ids of the live messages and of the messages of the stored sessions
\* other than the live message at place i
OtherIds(live, sessions, i) ==
  { live[j].id : j \in DOMAIN live \ {i} }
    \cup UNION { { sessions[k].messages[j].id : j \in DOMAIN sessions[k].messages } :
                 k \in DOMAIN sessions }

MadeOf(made, turn, newMessages) ==
  /\ Len(made) = Len(newMessages)
  /\ \A i \in DOMAIN newMessages :
       /\ made[i].id = <<turn.userMessage.id[1], "assistant", i - 1>>
       /\ made[i].content =
            (IF "content" \in DOMAIN newMessages[i]
             THEN extractText(newMessages[i].content) ELSE <<>>)

C23_PendingNeverCancelled ==
  [][ /\ (handleNewChat \/ SelectSession)
           => (inflight' = inflight /\ isPending' = isPending)
      /\ inflight # {}
           => /\ isPending
              /\ \A turn \in inflight :
                   /\ ENABLED (\E payload \in Payloads :
                                 ResponseSuccessOf(turn, payload, clock, FALSE))
                   /\ ENABLED ResponseFailureOf(turn, NoSession)
      /\ event'.op = "success" =>
           \A turn \in inflight, payload \in Payloads, today \in Later, storageThrows \in BOOLEAN :
             ( /\ clock' = today
               /\ ~HasLiveId(messages, turn.userMessage.id)
               /\ ResponseSuccessOf(turn, payload, today, storageThrows) )
             => /\ IsPrefix(messages, messages')
                /\ MadeOf(SubSeq(messages', Len(messages) + 1, Len(messages')),
                          turn, payload.newMessages)
                /\ inflight' = inflight \ {turn}
    ]_vars

\* C23 witness: while a request was out the user selected a stored session;
\* the response has arrived and its message follows the messages of that
\* session, which do not hold the user message of the turn
C23_Witness ==
  /\ event.op = "success"
  /\ inflight = {}
  /\ Len(messages) = 3
  /\ messages[1].id[1] < 0
  /\ messages[2].id[1] < 0
  /\ messages[3].id = <<event.uuid, "assistant", 0>>
  /\ ~HasLiveId(messages, <<event.uuid>>)

\* The conversation takes a new submission: the text field takes a text, and
\* a text that is not blank can be submitted (up to MaxTurns submissions)
Usable ==
  /\ ENABLED SetInput
  /\ (Trim(input) # <<>> /\ nextUuid <= MaxTurns) => ENABLED SubmitForm

IsPlaceholder(message) == Len(message.id) = 2 /\ message.id[2] = "loading"

HoldsPlaceholder(list) == \E i \in DOMAIN list : IsPlaceholder(list[i])

\* C25: a placeholder is never persisted and is shown only while a call is
\* pending: no stored Session, in memory or in the slot, holds a placeholder,
\* and whenever the controller is Idle (also after the no-agent path) the live
\* messages hold no placeholder.
C25_PlaceholderOnlyWhilePending ==
  /\ \A i \in DOMAIN storedSessions : ~HoldsPlaceholder(storedSessions[i].messages)
  /\ \A i \in DOMAIN Persisted : ~HoldsPlaceholder(Persisted[i].messages)
  /\ ~isPending => ~HoldsPlaceholder(messages)

\* C26: the store is written through: after every step that changes the
\* session list in memory and whose write succeeds, the slot decodes to a
\* sequence equal to the session list in memory; only the persist at submit
\* time and the upsert at success time change the list or the slot, and the
\* slot is read only at startup: no step takes from the slot what memory does
\* not hold, also when the slot is stale after a write that failed.
C26_WrittenThrough ==
  [][ /\ event'.op = "submit" =>
           \A today \in Later :
             ( /\ clock' = today
               /\ storedSessions' # storedSessions
               /\ handleSubmitAt(today, FALSE) )
             => /\ SameSessions(Persisted', storedSessions')
                /\ Len(Persisted') = Len(storedSessions')
      /\ event'.op = "success" =>
           \A turn \in inflight, payload \in Payloads, today \in Later :
             ( /\ clock' = today
               /\ storedSessions' # storedSessions
               /\ ResponseSuccessOf(turn, payload, today, FALSE) )
             => /\ SameSessions(Persisted', storedSessions')
                /\ Len(Persisted') = Len(storedSessions')
      /\ (storedSessions' # storedSessions \/ slot' # slot)
           => /\ event'.op \in {"submit", "success"}
              /\ slot' # slot => SameSessions(Persisted', storedSessions')
              /\ \A i \in DOMAIN storedSessions' :
                   LET s == storedSessions'[i].sessionId IN
                   \/ HasSession(storedSessions, s)
                   \/ event'.op = "success" /\ sessionId' = s
    ]_vars

\* C26 witness: the second turn on a session was answered and written: the
\* slot holds the list in memory, with the messages of both turns in the
\* session
C26_Witness ==
  /\ event.op = "success"
  /\ event.uuid = 2
  /\ slot = JSONStringify(storedSessions)
  /\ \E i \in DOMAIN storedSessions :
       /\ HasMessageId(storedSessions[i], <<1>>)
       /\ HasMessageId(storedSessions[i], <<2, "assistant", 0>>)

\* No conversation is open
Cleared == messages = <<>> /\ sessionId = NoSession

\* C27: after New chat while Idle the live message list is empty and there is
\* no current sessionId, and both stay so until the user next submits or
\* selects a session, whether or not the store holds sessions and whether or
\* not a session was selected at startup.
C27_NewChatClears ==
  [][ /\ (~isPending /\ event'.op = "newChat") => Cleared'
      /\ (~isPending /\ Cleared /\ event'.op \notin {"submit", "select"}) => Cleared'
    ]_vars

\* The user and assistant messages of a live list, placeholders left out
Conversation(live) ==
  SelectSeq(live, LAMBDA m : m.role \in {"user", "assistant"} /\ ~IsPlaceholder(m))

IdsOf(list) == [i \in DOMAIN list |-> list[i].id]

\* A session reproduces the live conversation: it holds the user and
\* assistant messages of it, each once and in the same order
Reproduces(session, live) ==
  /\ IdsOf(session.messages) = IdsOf(Conversation(live))
  /\ \A i \in DOMAIN session.messages :
       /\ session.messages[i].role = Conversation(live)[i].role
       /\ session.messages[i].content = Conversation(live)[i].content

\* The live list is one conversation: it holds the user message of every
\* turn submitted, and at least one was
OneConversation ==
  /\ nextUuid > 1
  /\ \A uuid \in 1..(nextUuid - 1) : HasLiveId(messages, <<uuid>>)

\* C28: whenever the controller is Idle with a current sessionId s after a
\* sequence of turns on one conversation (failed turns before a later success
\* included), the stored Session s holds every user and assistant message of
\* the live conversation, each exactly once and in the same order, in memory
\* and, when the last write went through, in the slot: selecting s again
\* reproduces the conversation.
C28_ReloadConsistency ==
  (~isPending /\ OneConversation /\ HasSession(storedSessions, sessionId))
  => /\ Reproduces(FindSession(storedSessions, sessionId), messages)
     /\ ~Stale => /\ HasSession(Persisted, sessionId)
                  /\ Reproduces(FindSession(Persisted, sessionId), messages)

\* C29: in every reachable state after startup the session list in memory is
\* ordered by updatedAt, newest first (the load at startup, the persist at
\* submit time and the upsert at success time each sort it).
C29_ListNewestFirst == NewestFirst(storedSessions)

\* C29 witness: the slot held the older session first; the user selected the
\* older session and submitted on it later: it is now ahead of the other
C29_Witness ==
  /\ event.op = "submit"
  /\ Len(storedSessions) = 2
  /\ storedSessions[1].sessionId = Literal("s2")
  /\ LastMessage(storedSessions[1]).id = <<event.uuid>>
  /\ GetTime(storedSessions[1].updatedAt) > GetTime(storedSessions[2].updatedAt)

\* The sessions of a list other than the session s
Others(sessions, s) == { sessions[i] : i \in { k \in DOMAIN sessions : sessions[k].sessionId # s } }

\* C30: a successful response that carries sessionId s changes only the
\* stored Session s: every other stored Session keeps its messages, title,
\* createdAt and updatedAt and none is added or lost, also when the user
\* selected another session or started a new chat while the request was
\* pending; and a Session s the store held keeps its title and createdAt.
C30_SuccessChangesOnlyItsSession ==
  [][ event'.op = "success" =>
        \A turn \in inflight, payload \in Payloads, today \in Later, storageThrows \in BOOLEAN :
          ( /\ payload.sessionId # NoSession
            /\ clock' = today
            /\ ResponseSuccessOf(turn, payload, today, storageThrows) )
          => LET s == payload.sessionId IN
             /\ Others(storedSessions', s) = Others(storedSessions, s)
             /\ Len(storedSessions') =
                  Len(storedSessions) + (IF HasSession(storedSessions, s) THEN 0 ELSE 1)
             /\ HasSession(storedSessions, s)
                  => /\ FindSession(storedSessions', s).title = FindSession(storedSessions, s).title
                     /\ FindSession(storedSessions', s).createdAt
                          = FindSession(storedSessions, s).createdAt
             /\ slot' # slot
                  => \A other \in Others(storedSessions, s) :
                       /\ HasSession(Persisted', other.sessionId)
                       /\ SameSession(FindSession(Persisted', other.sessionId), other)
    ]_vars

\* C30 witness: a turn was submitted on session s1, the user selected session
\* s2 while the request was pending, and the response came with the id of s1:
\* s1 holds the turn, s2 is as it was at startup, the live list shows the
\* messages of s2
C30_Witness ==
  /\ event.op = "success"
  /\ sessionId = Literal("s1")
  /\ Len(messages) = 3
  /\ messages[1].id = <<-2>>
  /\ Len(storedSessions) = 2
  /\ storedSessions[1].sessionId = Literal("s1")
  /\ LastMessage(storedSessions[1]).id = <<event.uuid, "assistant", 0>>
  /\ storedSessions[1].title = <<"h", "i">>
  /\ storedSessions[1].createdAt = ToISOString(1)
  /\ storedSessions[2].sessionId = Literal("s2")
  /\ Len(storedSessions[2].messages) = 2
  /\ storedSessions[2].updatedAt = ToISOString(0)

====
